---- MODULE Spec2Model ----
(***************************************************************************)
(* Checkpoint commit task of the sui indexer                               *)
(* (crates/sui-indexer/src/handlers/committer.rs).                         *)
(*                                                                         *)
(* start_tx_checkpoint_commit_task drains the metered channel of indexed   *)
(* checkpoints in ready chunks and hands every chunk to commit_checkpoints *)
(* which accumulates the per-category batches, persists the seven bulk     *)
(* categories concurrently (join_all), then the checkpoint rows, then      *)
(* publishes the last sequence number on the watch channel and records     *)
(* the metrics.                                                            *)
(***************************************************************************)
EXTENDS Integers, Sequences, FiniteSets, TLC

(* ------------------------------ bounds --------------------------------- *)
\* number of checkpoints the upstream indexing stage produces
MaxStream == 3
\* capacity of the metered channel between indexing stage and committer
\* (smaller than the stream, so that a producer with records left can find
\* the channel full)
Capacity == 2
\* largest CHECKPOINT_COMMIT_BATCH_SIZE the environment may hold
MaxBatchSize == 2
\* number of transactions of a checkpoint that has any
MaxTx == 1
\* largest number of persistence calls the store lets fail
MaxFaults == 1
\* largest number of times the first batch is handed in again
MaxReplays == 1
\* largest number of empty chunks a stream yields
MaxEmpty == 1

(* ----------------------------- constants ------------------------------- *)
\* sequence number of the first checkpoint of the stream
FirstSeq == 10
\* every EpochLen-th checkpoint is the last of its epoch and carries the
\* epoch-change record
EpochLen == 2

(* ------------------------------ helpers -------------------------------- *)
None == <<>>
Some(v) == <<v>>

Min(a, b) == IF a < b THEN a ELSE b

Range(s) == {s[i] : i \in 1..Len(s)}

RECURSIVE FlattenBackwards(_)
\* the inner vectors are joined last to first
FlattenBackwards(vv) ==
    IF vv = <<>> THEN <<>> ELSE FlattenBackwards(Tail(vv)) \o Head(vv)

RECURSIVE Flatten(_)
\* Vec<Vec<T>>::into_iter().flatten().collect()
Flatten(vv) == IF vv = <<>> THEN <<>> ELSE Head(vv) \o Flatten(Tail(vv))

\* entries of upd never replace an entry of map
ExtendKeepingFirst(map, upd) ==
    map \cup {q \in upd : \A p \in map : p[1] # q[1]}

\* BTreeMap::extend: entries of upd replace entries of map with the same key
Extend(map, upd) ==
    {p \in map : \A q \in upd : q[1] # p[1]} \cup upd

Phase1 == {"transactions", "tx_indices", "events", "displays",
           "packages", "objects", "epoch"}
Categories == Phase1 \cup {"checkpoints"}

(* ------------------------- input records ------------------------------- *)
\* CheckpointDataToCommit for sequence number seq with n transactions; each
\* transaction has one event, one tx index row, one package and one display
\* update (an entry <<key, value>>, keyed by the position of the transaction
\* and with the sequence number as value); a checkpoint with an even sequence
\* number and transactions has an entry of a further key 0, so that the
\* mappings of two checkpoints can share some keys and not others; e says
\* whether the checkpoint ends an epoch.
CheckpointDataToCommit(seq, n, e) ==
    [checkpoint      |-> seq,
     transactions    |-> [i \in 1..n |-> <<seq, i>>],
     events          |-> [i \in 1..n |-> <<seq, i>>],
     tx_indices      |-> [i \in 1..n |-> <<seq, i>>],
     display_updates |-> {<<i, seq>> : i \in 1..n} \cup
                         (IF n > 0 /\ seq % 2 = 0 THEN {<<0, seq>>} ELSE {}),
     object_changes  |-> seq,
     packages        |-> [i \in 1..n |-> <<seq, i>>],
     epoch           |-> IF e THEN Some(seq) ELSE None]

(* ------------------------------- state --------------------------------- *)
VARIABLES
    checkpoint_commit_batch_size, \* env CHECKPOINT_COMMIT_BATCH_SIZE
    skip_db_commit,               \* config.skip_db_commit
    tx_indexing_receiver,         \* records buffered in the metered channel
    sender_closed,                \* the producer dropped its sender
    produced,                     \* every record the producer has sent
    tx_load,                      \* transactions per checkpoint, by parity
    pc,                           \* position of the commit task
    batches,                      \* the accumulated per-category batches
    status,                       \* per persistence call of the cycle
    store,                        \* what the storage collaborator holds
    commit_notifier,              \* value of the watch channel
    metrics,                      \* IndexerMetrics touched by the task
    hist                          \* observation of the run (history)

vars == <<checkpoint_commit_batch_size, skip_db_commit, tx_indexing_receiver,
          sender_closed, produced, tx_load, pc, batches, status, store,
          commit_notifier, metrics, hist>>

config == <<checkpoint_commit_batch_size, skip_db_commit>>
channel == <<tx_indexing_receiver, sender_closed, produced, tx_load>>
cycle == <<batches, status>>

Idle == [c \in Categories |-> "idle"]

EmptyBatches ==
    [checkpoint_batch |-> <<>>, tx_batch |-> <<>>, events_batch |-> <<>>,
     tx_indices_batch |-> <<>>, display_updates_batch |-> {},
     object_changes_batch |-> <<>>, packages_batch |-> <<>>,
     epochs_batch |-> <<>>]

EmptyStore ==
    [transactions |-> {}, tx_indices |-> {}, events |-> {}, displays |-> {},
     packages |-> {}, objects |-> {}, epoch |-> {}, checkpoints |-> {}]

Init ==
    /\ checkpoint_commit_batch_size \in 1..MaxBatchSize
    /\ skip_db_commit \in BOOLEAN
    /\ tx_indexing_receiver = <<>>
    /\ sender_closed = FALSE
    /\ produced = <<>>
    /\ tx_load \in [{0, 1} -> {0, MaxTx}]
    /\ pc = "next"
    /\ batches = EmptyBatches
    /\ status = Idle
    /\ store = EmptyStore
    /\ commit_notifier = None
    /\ metrics = [latest_tx_checkpoint_sequence_number |-> None,
                  total_tx_checkpoint_committed |-> 0,
                  total_transaction_committed |-> 0,
                  total_epoch_committed |-> 0,
                  transaction_per_checkpoint |-> None,
                  thousand_transaction_avg_db_commit_latency |-> None]
    /\ hist = [chunks |-> <<>>,      \* every chunk yielded (sequence numbers)
               skipped |-> 0,        \* chunks discarded by the bypass
               store_calls |-> 0,    \* persistence calls issued
               faults |-> 0,         \* persistence calls that failed
               phase2_ok |-> 0,      \* successful persist_checkpoints
               sent |-> <<>>,        \* values commit_notifier.send stored
               send_errors |-> 0,    \* sends that found no receiver
               committed |-> <<>>,   \* checkpoint_batch of the published cycles
               before |-> None,      \* watermark when the cycle started
               restarts |-> 0,       \* times the task was started again
               replayed |-> <<>>,    \* checkpoint_batch handed in again
               snapshot |-> {}]      \* checkpoint rows it then found stored

(* ------------------------- upstream producer --------------------------- *)
TaskAlive == pc \notin {"done", "panicked"}

\* the sequence number the indexing stage gives its next record
NextSeq == FirstSeq + Len(produced)

\* the indexing stage sends into a channel without a bound
ProducerSendUnbounded ==
    /\ TaskAlive
    /\ ~sender_closed
    /\ Len(produced) < MaxStream
    /\ LET rec == CheckpointDataToCommit(NextSeq, tx_load[NextSeq % 2],
                                         (NextSeq + 1) % EpochLen = 0)
       IN /\ tx_indexing_receiver' = Append(tx_indexing_receiver, rec)
          /\ produced' = Append(produced, rec)
    /\ UNCHANGED <<config, sender_closed, tx_load, pc, cycle, store,
                   commit_notifier, metrics, hist>>

\* the indexing stage sends one record; a full channel suspends it
ProducerSend ==
    /\ TaskAlive
    /\ ~sender_closed
    /\ Len(produced) < MaxStream
    /\ Len(tx_indexing_receiver) < Capacity
    /\ LET rec == CheckpointDataToCommit(NextSeq, tx_load[NextSeq % 2],
                                         (NextSeq + 1) % EpochLen = 0)
       IN /\ tx_indexing_receiver' = Append(tx_indexing_receiver, rec)
          /\ produced' = Append(produced, rec)
    /\ UNCHANGED <<config, sender_closed, tx_load, pc, cycle, store,
                   commit_notifier, metrics, hist>>

\* the indexing stage drops its sender (while the commit task runs: what the
\* environment does after the task has ended is not followed)
ProducerClose ==
    /\ TaskAlive
    /\ ~sender_closed
    /\ sender_closed' = TRUE
    /\ UNCHANGED <<config, tx_indexing_receiver, produced, tx_load, pc, cycle,
                   store, commit_notifier, metrics, hist>>

(* ------------------------- commit task: loop --------------------------- *)
\* the sequence numbers of a chunk of records
Seqs(chunk) == [i \in 1..Len(chunk) |-> chunk[i].checkpoint]

\* a chunk ends with the first record that ends an epoch
ChunkLenUpToEpoch(q, cap) ==
    LET n == Min(cap, Len(q))
        ends == {i \in 1..n : q[i].epoch # None}
    IN IF ends = {} THEN n
       ELSE CHOOSE i \in ends : \A j \in ends : i <= j

\* the stream yields everything that is ready, whatever the cap
ChunkLenAll(q, cap) == Len(q)

\* a chunk is yielded only once it is full (chunks instead of ready_chunks)
ChunkLenFull(q, cap) == IF Len(q) >= cap THEN cap ELSE 0

\* number of records ReceiverStream::ready_chunks(cap) yields when q is what
\* the channel holds: everything that is ready, at most cap
ChunkLen(q, cap) == Min(cap, Len(q))

\* the chunk stream.next() yields
ReadyChunk(q, cap) == SubSeq(q, 1, ChunkLen(q, cap))

\* one record more than the chunk leaves the channel
AfterChunkLosing(q, cap) == SubSeq(q, Min(cap, Len(q)) + 2, Len(q))

\* what stays in the channel
AfterChunk(q, cap) == SubSeq(q, ChunkLen(q, cap) + 1, Len(q))

\* one turn of the for loop of commit_checkpoints: the record is taken apart
\* and each part pushed on (merged into) its batch
Push(acc, rec) ==
    [checkpoint_batch      |-> Append(acc.checkpoint_batch, rec.checkpoint),
     tx_batch              |-> Append(acc.tx_batch, rec.transactions),
     events_batch          |-> Append(acc.events_batch, rec.events),
     tx_indices_batch      |-> Append(acc.tx_indices_batch, rec.tx_indices),
     display_updates_batch |-> Extend(acc.display_updates_batch,
                                      rec.display_updates),
     object_changes_batch  |-> Append(acc.object_changes_batch,
                                      rec.object_changes),
     packages_batch        |-> Append(acc.packages_batch, rec.packages),
     epochs_batch          |-> IF rec.epoch # None
                               THEN Append(acc.epochs_batch, rec.epoch[1])
                               ELSE acc.epochs_batch]

RECURSIVE Accumulate(_, _)
\* the for loop over indexed_checkpoint_batch
Accumulate(acc, chunk) ==
    IF chunk = <<>> THEN acc
    ELSE Accumulate(Push(acc, Head(chunk)), Tail(chunk))

\* the batches as handed to the store: the nested ones flattened
CommitBatch(chunk) ==
    LET acc == Accumulate(EmptyBatches, chunk)
    IN [acc EXCEPT !.tx_batch = Flatten(acc.tx_batch),
                   !.tx_indices_batch = Flatten(acc.tx_indices_batch),
                   !.events_batch = Flatten(acc.events_batch),
                   !.packages_batch = Flatten(acc.packages_batch)]

first_checkpoint_seq == batches.checkpoint_batch[1]

\* the first sequence number is taken for the last
last_checkpoint_seq_is_first == batches.checkpoint_batch[1]

\* the largest sequence number of the batch is taken for the last
last_checkpoint_seq_is_max ==
    CHOOSE m \in Range(batches.checkpoint_batch) :
        \A n \in Range(batches.checkpoint_batch) : n <= m

last_checkpoint_seq == batches.checkpoint_batch[Len(batches.checkpoint_batch)]

DbCommitSkippedOff == FALSE

\* `if config.skip_db_commit`
DbCommitSkipped == skip_db_commit

\* the bypass leaves the loop (break for continue) after its first chunk
SkipDbCommitBreaking ==
    /\ pc = "next"
    /\ tx_indexing_receiver # <<>>
    /\ DbCommitSkipped
    /\ LET chunk == ReadyChunk(tx_indexing_receiver,
                               checkpoint_commit_batch_size)
       IN /\ tx_indexing_receiver' =
                AfterChunk(tx_indexing_receiver, checkpoint_commit_batch_size)
          /\ hist' = [hist EXCEPT !.chunks = Append(@, Seqs(chunk)),
                                  !.skipped = @ + 1]
    /\ pc' = "done"
    /\ UNCHANGED <<config, sender_closed, produced, tx_load, cycle, store,
                   commit_notifier, metrics>>

\* stream.next() yields a chunk and config.skip_db_commit is set: the chunk
\* is logged and discarded
SkipDbCommit ==
    /\ pc = "next"
    /\ tx_indexing_receiver # <<>>
    /\ DbCommitSkipped
    /\ LET chunk == ReadyChunk(tx_indexing_receiver,
                               checkpoint_commit_batch_size)
       IN /\ tx_indexing_receiver' =
                AfterChunk(tx_indexing_receiver, checkpoint_commit_batch_size)
          /\ hist' = [hist EXCEPT !.chunks = Append(@, Seqs(chunk)),
                                  !.skipped = @ + 1]
    /\ UNCHANGED <<config, sender_closed, produced, tx_load, pc, cycle, store,
                   commit_notifier, metrics>>

\* the next chunk is taken and its cycle started while the cycle before has
\* not published yet (the cycles are not awaited one by one)
CommitCheckpointsOverlapping ==
    /\ pc \in {"next", "publish"}
    /\ tx_indexing_receiver # <<>>
    /\ ~DbCommitSkipped
    /\ LET chunk == ReadyChunk(tx_indexing_receiver,
                               checkpoint_commit_batch_size)
       IN /\ tx_indexing_receiver' =
                AfterChunk(tx_indexing_receiver, checkpoint_commit_batch_size)
          /\ batches' = CommitBatch(chunk)
          /\ hist' = [hist EXCEPT !.chunks = Append(@, Seqs(chunk)),
                                  !.store_calls = @ + Cardinality(Phase1),
                                  !.before = commit_notifier]
    /\ status' = [c \in Categories |->
                    IF c \in Phase1 THEN "pending" ELSE "idle"]
    /\ pc' = "phase1"
    /\ UNCHANGED <<config, sender_closed, produced, tx_load, store,
                   commit_notifier, metrics>>

\* persist_epoch is called only if the batch has an epoch change
CommitCheckpointsSkippingEmpty ==
    /\ pc = "next"
    /\ tx_indexing_receiver # <<>>
    /\ ~DbCommitSkipped
    /\ LET chunk == ReadyChunk(tx_indexing_receiver,
                               checkpoint_commit_batch_size)
           called == IF CommitBatch(chunk).epochs_batch = <<>>
                     THEN Phase1 \ {"epoch"} ELSE Phase1
       IN /\ tx_indexing_receiver' =
                AfterChunk(tx_indexing_receiver, checkpoint_commit_batch_size)
          /\ batches' = CommitBatch(chunk)
          /\ hist' = [hist EXCEPT !.chunks = Append(@, Seqs(chunk)),
                                  !.store_calls = @ + Cardinality(called),
                                  !.before = commit_notifier]
          /\ status' = [c \in Categories |->
                          IF c \in called THEN "pending"
                          ELSE IF c \in Phase1 THEN "ok" ELSE "idle"]
    /\ pc' = "phase1"
    /\ UNCHANGED <<config, sender_closed, produced, tx_load, store,
                   commit_notifier, metrics>>

\* stream.next() yields a chunk that is handed to commit_checkpoints, which
\* runs up to its first suspension point: the batches are accumulated and the
\* seven phase-1 calls are issued
CommitCheckpoints ==
    /\ pc = "next"
    /\ tx_indexing_receiver # <<>>
    /\ ~DbCommitSkipped
    /\ LET chunk == ReadyChunk(tx_indexing_receiver,
                               checkpoint_commit_batch_size)
       IN /\ tx_indexing_receiver' =
                AfterChunk(tx_indexing_receiver, checkpoint_commit_batch_size)
          /\ batches' = CommitBatch(chunk)
          /\ hist' = [hist EXCEPT !.chunks = Append(@, Seqs(chunk)),
                                  !.store_calls = @ + Cardinality(Phase1),
                                  !.before = commit_notifier]
    /\ status' = [c \in Categories |->
                    IF c \in Phase1 THEN "pending" ELSE "idle"]
    /\ pc' = "phase1"
    /\ UNCHANGED <<config, sender_closed, produced, tx_load, store,
                   commit_notifier, metrics>>

\* the loop ends as soon as the sender is gone, whatever is still buffered
EndOfStreamEarly ==
    /\ pc = "next"
    /\ sender_closed
    /\ pc' = "done"
    /\ UNCHANGED <<config, channel, cycle, store, commit_notifier,
                   metrics, hist>>

\* stream.next() yields None: the channel is closed and drained
EndOfStream ==
    /\ pc = "next"
    /\ tx_indexing_receiver = <<>>
    /\ sender_closed
    /\ pc' = "done"
    /\ UNCHANGED <<config, channel, cycle, store, commit_notifier,
                   metrics, hist>>

(* ---------------------- storage collaborator --------------------------- *)
\* the categories are not write-disjoint: persist_transactions rewrites the
\* event rows as well and drops those it does not know
PersistedOverlapping(st, c, b) ==
    CASE c = "transactions" ->
           [st EXCEPT !.transactions = @ \cup Range(b.tx_batch),
                      !.events = {}]
      [] c = "tx_indices" ->
           [st EXCEPT !.tx_indices = @ \cup Range(b.tx_indices_batch)]
      [] c = "events" ->
           [st EXCEPT !.events = @ \cup Range(b.events_batch)]
      [] c = "displays" ->
           [st EXCEPT !.displays = Extend(@, b.display_updates_batch)]
      [] c = "packages" ->
           [st EXCEPT !.packages = @ \cup Range(b.packages_batch)]
      [] c = "objects" ->
           [st EXCEPT !.objects = @ \cup Range(b.object_changes_batch)]
      [] c = "epoch" ->
           [st EXCEPT !.epoch = @ \cup Range(b.epochs_batch)]
      [] c = "checkpoints" ->
           [st EXCEPT !.checkpoints = @ \cup Range(b.checkpoint_batch)]

\* the store after the call of category c with the cycle's batches b has
\* succeeded: rows are keyed, so writing is a union (an upsert for displays)
Persisted(st, c, b) ==
    CASE c = "transactions" ->
           [st EXCEPT !.transactions = @ \cup Range(b.tx_batch)]
      [] c = "tx_indices" ->
           [st EXCEPT !.tx_indices = @ \cup Range(b.tx_indices_batch)]
      [] c = "events" ->
           [st EXCEPT !.events = @ \cup Range(b.events_batch)]
      [] c = "displays" ->
           [st EXCEPT !.displays = Extend(@, b.display_updates_batch)]
      [] c = "packages" ->
           [st EXCEPT !.packages = @ \cup Range(b.packages_batch)]
      [] c = "objects" ->
           [st EXCEPT !.objects = @ \cup Range(b.object_changes_batch)]
      [] c = "epoch" ->
           [st EXCEPT !.epoch = @ \cup Range(b.epochs_batch)]
      [] c = "checkpoints" ->
           [st EXCEPT !.checkpoints = @ \cup Range(b.checkpoint_batch)]

(* ------------------------ commit task: phase 1 ------------------------- *)
\* the phase-1 call of category c completes with Ok
PersistOk(c) ==
    /\ pc = "phase1"
    /\ status[c] = "pending"
    /\ status' = [status EXCEPT ![c] = "ok"]
    /\ store' = Persisted(store, c, batches)
    /\ UNCHANGED <<config, channel, pc, batches, commit_notifier, metrics,
                   hist>>

\* the phase-1 call of category c completes with Err: nothing is written
PersistErr(c) ==
    /\ pc = "phase1"
    /\ status[c] = "pending"
    /\ hist.faults < MaxFaults
    /\ status' = [status EXCEPT ![c] = "err"]
    /\ hist' = [hist EXCEPT !.faults = @ + 1]
    /\ UNCHANGED <<config, channel, pc, batches,
                   store, commit_notifier, metrics>>

\* the join resolves as soon as one call has failed (try_join_all)
JoinAllFailFast(st) ==
    \/ \A c \in Phase1 : st[c] \in {"ok", "err"}
    \/ \E c \in Phase1 : st[c] = "err"

\* join_all(..).await resolves once every one of its futures has completed
JoinAllReady(st) == \A c \in Phase1 : st[c] \in {"ok", "err"}

\* errors are logged and then ignored
Phase1CollectLogOnly(st) == "ok"

\* one Ok is taken for success
Phase1CollectAnyOk(st) ==
    IF \E c \in Phase1 : st[c] = "ok" THEN "ok" ELSE "err"

\* .collect::<IndexerResult<Vec<_>>>(): Ok only if every result is Ok
Phase1Collect(st) ==
    IF \A c \in Phase1 : st[c] = "ok" THEN "ok" ELSE "err"

\* the joined phase 1 is collected; .expect() panics on an error, otherwise
\* persist_checkpoints is called
Phase1Join ==
    /\ pc = "phase1"
    /\ JoinAllReady(status)
    /\ IF Phase1Collect(status) = "ok"
       THEN /\ pc' = "phase2"
            /\ status' = [status EXCEPT !["checkpoints"] = "pending"]
            /\ hist' = [hist EXCEPT !.store_calls = @ + 1]
       ELSE /\ pc' = "panicked"
            /\ UNCHANGED <<status, hist>>
    /\ UNCHANGED <<config, channel, batches, store,
                   commit_notifier, metrics>>

(* ------------------------ commit task: phase 2 ------------------------- *)
\* the committed-checkpoints counter is raised right after persist_checkpoints
\* (before the send)
PersistCheckpointsOkCounting ==
    /\ pc = "phase2"
    /\ status["checkpoints"] = "pending"
    /\ status' = [status EXCEPT !["checkpoints"] = "ok"]
    /\ store' = Persisted(store, "checkpoints", batches)
    /\ hist' = [hist EXCEPT !.phase2_ok = @ + 1]
    /\ metrics' = [metrics EXCEPT !.total_tx_checkpoint_committed =
                                      @ + Len(batches.checkpoint_batch)]
    /\ pc' = "publish"
    /\ UNCHANGED <<config, channel, batches, commit_notifier>>

\* persist_checkpoints completes with Ok
PersistCheckpointsOk ==
    /\ pc = "phase2"
    /\ status["checkpoints"] = "pending"
    /\ status' = [status EXCEPT !["checkpoints"] = "ok"]
    /\ store' = Persisted(store, "checkpoints", batches)
    /\ hist' = [hist EXCEPT !.phase2_ok = @ + 1]
    /\ pc' = "publish"
    /\ UNCHANGED <<config, channel, batches, commit_notifier, metrics>>

\* a failed persist_checkpoints is called again (in-process retry)
PersistCheckpointsRetry ==
    /\ pc = "phase2"
    /\ status["checkpoints"] = "pending"
    /\ hist.faults < MaxFaults
    /\ hist' = [hist EXCEPT !.faults = @ + 1, !.store_calls = @ + 1]
    /\ UNCHANGED <<config, channel, pc, cycle, store, commit_notifier,
                   metrics>>

\* the error of persist_checkpoints is logged (tap_err) and not escalated
PersistCheckpointsErrIgnored ==
    /\ pc = "phase2"
    /\ status["checkpoints"] = "pending"
    /\ hist.faults < MaxFaults
    /\ status' = [status EXCEPT !["checkpoints"] = "err"]
    /\ hist' = [hist EXCEPT !.faults = @ + 1]
    /\ pc' = "publish"
    /\ UNCHANGED <<config, channel, batches, store,
                   commit_notifier, metrics>>

\* persist_checkpoints completes with Err: .expect() panics
PersistCheckpointsErr ==
    /\ pc = "phase2"
    /\ status["checkpoints"] = "pending"
    /\ hist.faults < MaxFaults
    /\ status' = [status EXCEPT !["checkpoints"] = "err"]
    /\ hist' = [hist EXCEPT !.faults = @ + 1]
    /\ pc' = "panicked"
    /\ UNCHANGED <<config, channel, batches, store,
                   commit_notifier, metrics>>

(* --------------------- commit task: publish, metrics ------------------- *)
\* the number of checkpoints is sent in place of the sequence number
PublishedCount == Some(Len(batches.checkpoint_batch))

\* the value handed to commit_notifier.send
Published == Some(last_checkpoint_seq)

\* the result of send is dropped (no .expect()): the cycle goes on without
\* a stored value
PublishIgnoringError ==
    /\ pc = "publish"
    /\ \E receiver_alive \in BOOLEAN :
         IF receiver_alive
         THEN /\ commit_notifier' = Published
              /\ hist' = [hist EXCEPT
                            !.sent = Append(@, Published[1]),
                            !.committed = Append(@, batches.checkpoint_batch)]
         ELSE /\ hist' = [hist EXCEPT !.send_errors = @ + 1]
              /\ UNCHANGED commit_notifier
    /\ pc' = "metrics"
    /\ UNCHANGED <<config, channel, cycle, store, metrics>>

\* the value sent is None
PublishNone ==
    /\ pc = "publish"
    /\ \E receiver_alive \in BOOLEAN :
         IF receiver_alive
         THEN /\ commit_notifier' = None
              /\ hist' = [hist EXCEPT
                            !.sent = Append(@, last_checkpoint_seq),
                            !.committed = Append(@, batches.checkpoint_batch)]
              /\ pc' = "metrics"
         ELSE /\ pc' = "panicked"
              /\ hist' = [hist EXCEPT !.send_errors = @ + 1]
              /\ UNCHANGED commit_notifier
    /\ UNCHANGED <<config, channel, cycle, store, metrics>>

\* commit_notifier.send(Some(last_checkpoint_seq)).expect(..): watch::Sender
\* stores the value if a receiver is alive; if every receiver is gone it
\* returns an error, the value is not stored and .expect() panics
Publish ==
    /\ pc = "publish"
    /\ \E receiver_alive \in BOOLEAN :
         IF receiver_alive
         THEN /\ commit_notifier' = Published
              /\ hist' = [hist EXCEPT
                            !.sent = Append(@, Published[1]),
                            !.committed = Append(@, batches.checkpoint_batch)]
              /\ pc' = "metrics"
         ELSE /\ pc' = "panicked"
              /\ hist' = [hist EXCEPT !.send_errors = @ + 1]
              /\ UNCHANGED commit_notifier
    /\ UNCHANGED <<config, channel, cycle, store, metrics>>

\* last - first + 1 in u64 arithmetic as a build without overflow checks
\* computes it: with last < first the difference wraps, and the value is
\* 2^64 + (last - first + 1), kept as <<"2^64", last - first + 1>>, or 0 when
\* last = first - 1
WrappingSpan(first, last) ==
    IF last >= first THEN last - first + 1
    ELSE IF last - first + 1 = 0 THEN 0
    ELSE <<"2^64", last - first + 1>>

\* the checkpoint counter and the transaction counter get each other's
\* increment
MetricsAfterSwapped(m) ==
    LET checkpoint_num == Len(batches.checkpoint_batch)
        tx_count == Len(batches.tx_batch)
        epochs_count == Len(batches.epochs_batch)
    IN [latest_tx_checkpoint_sequence_number |-> Some(last_checkpoint_seq),
        total_tx_checkpoint_committed |->
            m.total_tx_checkpoint_committed + tx_count,
        total_transaction_committed |->
            m.total_transaction_committed + checkpoint_num,
        total_epoch_committed |-> m.total_epoch_committed + epochs_count,
        transaction_per_checkpoint |->
            Some(<<tx_count,
                   last_checkpoint_seq - first_checkpoint_seq + 1>>),
        thousand_transaction_avg_db_commit_latency |->
            Some(<<1000, tx_count>>)]

\* the metrics m after the updates of the cycle: the gauge, the three
\* counters and the two histogram observations; an observation is kept as
\* <<dividend, divisor>> (the divisions are f64 divisions, which yield inf or
\* NaN for a zero divisor and do not trap)
MetricsAfter(m) ==
    LET checkpoint_num == Len(batches.checkpoint_batch)
        tx_count == Len(batches.tx_batch)
        epochs_count == Len(batches.epochs_batch)
    IN [latest_tx_checkpoint_sequence_number |-> Some(last_checkpoint_seq),
        total_tx_checkpoint_committed |->
            m.total_tx_checkpoint_committed + checkpoint_num,
        total_transaction_committed |->
            m.total_transaction_committed + tx_count,
        total_epoch_committed |-> m.total_epoch_committed + epochs_count,
        transaction_per_checkpoint |->
            Some(<<tx_count,
                   WrappingSpan(first_checkpoint_seq, last_checkpoint_seq)>>),
        thousand_transaction_avg_db_commit_latency |->
            Some(<<1000, tx_count>>)]

\* the latency per 1000 transactions is computed by a division that traps on
\* a zero divisor
RecordMetricsTrapping ==
    /\ pc = "metrics"
    /\ IF Len(batches.tx_batch) = 0
       THEN /\ pc' = "panicked"
            /\ UNCHANGED <<metrics, batches, status>>
       ELSE /\ metrics' = MetricsAfter(metrics)
            /\ pc' = "next"
            /\ batches' = EmptyBatches
            /\ status' = Idle
    /\ UNCHANGED <<config, channel, store, commit_notifier, hist>>

\* the rest of commit_checkpoints after the send: the metrics are updated and
\* the loop is back at stream.next(). If the last sequence number of the
\* batch is smaller than the first, last - first overflows: a build with
\* overflow checks panics there, after the gauge and the counters and before
\* the two observations; a build without them goes on with the wrapped value.
RecordMetrics ==
    /\ pc = "metrics"
    /\ \E overflow_checks \in BOOLEAN :
         IF overflow_checks /\ last_checkpoint_seq < first_checkpoint_seq
         THEN /\ metrics' =
                   [MetricsAfter(metrics) EXCEPT
                      !.transaction_per_checkpoint =
                          metrics.transaction_per_checkpoint,
                      !.thousand_transaction_avg_db_commit_latency =
                          metrics.thousand_transaction_avg_db_commit_latency]
              /\ pc' = "panicked"
              /\ UNCHANGED <<batches, status>>
         ELSE /\ metrics' = MetricsAfter(metrics)
              /\ pc' = "next"
              /\ batches' = EmptyBatches
              /\ status' = Idle
    /\ UNCHANGED <<config, channel, store, commit_notifier, hist>>

(* --------------------------- specification ----------------------------- *)
Next ==
    \/ ProducerSend
    \/ ProducerClose
    \/ SkipDbCommit
    \/ CommitCheckpoints
    \/ EndOfStream
    \/ \E c \in Phase1 : PersistOk(c)
    \/ \E c \in Phase1 : PersistErr(c)
    \/ Phase1Join
    \/ PersistCheckpointsOk
    \/ PersistCheckpointsErr
    \/ Publish
    \/ RecordMetrics

\* A behaviour may stop in any state: a task dropped at a suspension point
\* (process shutdown) leaves the state of that moment behind, the calls still
\* pending never complete.
Spec == Init /\ [][Next]_vars

(* ------------------------- crash and restart --------------------------- *)
\* the state of a freshly started commit task: nothing buffered, produced
\* cut back to the first n records (the upstream stage sends the stream again
\* from record n + 1), watch channel and metrics of a new process; the store
\* is the one the old task has left behind
Restarted(n) ==
    /\ tx_indexing_receiver' = <<>>
    /\ sender_closed' = FALSE
    /\ produced' = SubSeq(produced, 1, n)
    /\ pc' = "next"
    /\ batches' = EmptyBatches
    /\ status' = Idle
    /\ commit_notifier' = None
    /\ metrics' = [latest_tx_checkpoint_sequence_number |-> None,
                   total_tx_checkpoint_committed |-> 0,
                   total_transaction_committed |-> 0,
                   total_epoch_committed |-> 0,
                   transaction_per_checkpoint |-> None,
                   thousand_transaction_avg_db_commit_latency |-> None]
    /\ UNCHANGED <<config, tx_load, store>>

\* the number of records of the stream up to the highest checkpoint row of
\* the store: the stream is resumed from max(checkpoint sequence) + 1
ResumePoint ==
    IF store.checkpoints = {} THEN 0
    ELSE (CHOOSE m \in store.checkpoints :
             \A x \in store.checkpoints : x <= m) + 1 - FirstSeq

\* the task has panicked, was dropped or the process was killed at any point
\* of a run that has not ended; a new task is started on the same store and
\* is followed without another stop
Restart ==
    /\ pc # "done"
    /\ hist.restarts = 0
    /\ Restarted(ResumePoint)
    /\ hist' = [hist EXCEPT !.chunks = <<>>, !.skipped = 0,
                            !.store_calls = 0, !.phase2_ok = 0,
                            !.sent = <<>>, !.send_errors = 0,
                            !.committed = <<>>, !.before = None,
                            !.restarts = @ + 1]

\* The task looks at the channel only in stream.next(): a send or a close
\* that happens during a cycle has the effect of one that happens right
\* before the next stream.next(), so the restarted runs take the producer's
\* steps between the cycles only.
SendBetweenCycles == pc = "next" /\ ProducerSend

CloseBetweenCycles == pc = "next" /\ ProducerClose

\* A persistence call that fails writes nothing: for the store, a run with a
\* failed call is a run that was stopped before the call completed, which
\* Restart covers. The restarted runs leave the failures out.
NextRestart ==
    \/ Restart
    \/ SendBetweenCycles
    \/ CloseBetweenCycles
    \/ CommitCheckpoints
    \/ EndOfStream
    \/ \E c \in Phase1 : PersistOk(c)
    \/ Phase1Join
    \/ PersistCheckpointsOk
    \/ Publish
    \/ RecordMetrics

\* the task starts without bypass on a stream whose checkpoints all have
\* transactions
InitCommitting ==
    /\ Init
    /\ ~skip_db_commit
    /\ tx_load = [p \in {0, 1} |-> MaxTx]

\* runs in which the task may be started again
SpecRestart == InitCommitting /\ [][NextRestart]_vars

\* The first cycle of a run on the empty store is interrupted before the
\* watermark has advanced, and the upstream stage sends the stream again from
\* its first record, whatever the store holds by then. A run that is
\* interrupted again is followed only if it was committing the same batch.
Replay ==
    /\ hist.restarts < MaxReplays
    /\ pc \in {"phase1", "phase2", "publish", "panicked"}
    /\ Len(hist.chunks) = 1
    /\ hist.committed = <<>>
    /\ hist.replayed \in {<<>>, hist.chunks[1]}
    /\ Restarted(0)
    /\ hist' = [hist EXCEPT !.chunks = <<>>, !.skipped = 0,
                            !.store_calls = 0, !.phase2_ok = 0,
                            !.sent = <<>>, !.send_errors = 0,
                            !.committed = <<>>, !.before = None,
                            !.restarts = @ + 1,
                            !.replayed = hist.chunks[1],
                            !.snapshot = store.checkpoints]

\* the first cycle of a run
FirstCommitCheckpoints == hist.chunks = <<>> /\ CommitCheckpoints

NextReplay ==
    \/ Replay
    \/ SendBetweenCycles
    \/ CloseBetweenCycles
    \/ FirstCommitCheckpoints
    \/ EndOfStream
    \/ \E c \in Phase1 : PersistOk(c)
    \/ Phase1Join
    \/ PersistCheckpointsOk
    \/ Publish
    \/ RecordMetrics

\* runs without bypass and without failing calls, every checkpoint with
\* transactions, followed up to the end of their first cycle, in which the
\* first batch may be handed in again
SpecReplay == InitCommitting /\ [][NextReplay]_vars

(* ---------------------------- empty chunks ---------------------------- *)
\* commit_checkpoints is called with the empty chunk: first().unwrap() panics
EmptyChunkCommitted ==
    /\ pc = "next"
    /\ Cardinality({i \in 1..Len(hist.chunks) : hist.chunks[i] = <<>>})
          < MaxEmpty
    /\ hist' = [hist EXCEPT !.chunks = Append(@, <<>>)]
    /\ pc' = "panicked"
    /\ UNCHANGED <<config, channel, cycle, store, commit_notifier, metrics>>

\* stream.next() yields an empty chunk (which ready_chunks never does, the
\* check of the loop is a safeguard): is_empty() holds and the loop goes on
\* with the next stream.next()
EmptyChunk ==
    /\ pc = "next"
    /\ Cardinality({i \in 1..Len(hist.chunks) : hist.chunks[i] = <<>>})
          < MaxEmpty
    /\ hist' = [hist EXCEPT !.chunks = Append(@, <<>>)]
    /\ UNCHANGED <<config, channel, pc, cycle, store, commit_notifier,
                   metrics>>

NextEmpty ==
    \/ EmptyChunk
    \/ SendBetweenCycles
    \/ CloseBetweenCycles
    \/ CommitCheckpoints
    \/ EndOfStream
    \/ \E c \in Phase1 : PersistOk(c)
    \/ Phase1Join
    \/ PersistCheckpointsOk
    \/ Publish
    \/ RecordMetrics

\* runs without bypass and without failing calls on a stream that may yield
\* empty chunks
SpecEmpty == InitCommitting /\ [][NextEmpty]_vars

(* ------------------------------ progress ------------------------------ *)
\* the send finds a live receiver
PublishLive == Publish /\ pc' = "metrics"

\* the steps of a run in which no persistence call fails and the watch
\* channel keeps a receiver
NextLive ==
    \/ ProducerSend
    \/ ProducerClose
    \/ CommitCheckpoints
    \/ EndOfStream
    \/ \E c \in Phase1 : PersistOk(c)
    \/ Phase1Join
    \/ PersistCheckpointsOk
    \/ PublishLive
    \/ RecordMetrics

\* the task is scheduled whenever it can run (tokio polls a ready task), and
\* a persistence call that does not fail completes
Fairness ==
    /\ WF_vars(CommitCheckpoints \/ EndOfStream \/ Phase1Join
                  \/ PublishLive \/ RecordMetrics)
    /\ WF_vars(\E c \in Phase1 : PersistOk(c))
    /\ WF_vars(PersistCheckpointsOk)

\* such runs without bypass, under fair scheduling
SpecLive == InitCommitting /\ [][NextLive]_vars /\ Fairness

(* --------------------- a stream that is not well formed ---------------- *)
\* the sequence numbers an indexing stage that does not keep the numbering
\* puts on its records: with two numbers three apart a stream has gaps,
\* repetitions and decreasing numbers
AnySeqs == {FirstSeq, FirstSeq + 3}

\* the indexing stage sends a record with any of these numbers; the channel
\* takes what it is given. The record is sent while the task waits at
\* stream.next().
ProducerSendAny ==
    /\ pc = "next"
    /\ ~sender_closed
    /\ Len(produced) < MaxStream
    /\ Len(tx_indexing_receiver) < Capacity
    /\ \E seq \in AnySeqs :
         LET rec == CheckpointDataToCommit(seq, tx_load[seq % 2],
                                           (seq + 1) % EpochLen = 0)
         IN /\ tx_indexing_receiver' = Append(tx_indexing_receiver, rec)
            /\ produced' = Append(produced, rec)
    /\ UNCHANGED <<config, sender_closed, tx_load, pc, cycle, store,
                   commit_notifier, metrics, hist>>

\* the commit task on such a stream; the persistence calls succeed
NextUnvalidated ==
    \/ ProducerSendAny
    \/ CloseBetweenCycles
    \/ CommitCheckpoints
    \/ EndOfStream
    \/ \E c \in Phase1 : PersistOk(c)
    \/ Phase1Join
    \/ PersistCheckpointsOk
    \/ Publish
    \/ RecordMetrics

SpecUnvalidated == InitCommitting /\ [][NextUnvalidated]_vars

(* ------------------------------ bypass mode ---------------------------- *)
\* the task starts with config.skip_db_commit set
InitBypass == Init /\ skip_db_commit

\* the steps of the task and of the indexing stage in bypass mode
NextBypass ==
    \/ ProducerSend
    \/ ProducerClose
    \/ SkipDbCommit
    \/ EndOfStream

\* the spawned task is polled again whenever it can make a step; the
\* indexing stage may stop sending, and may never close
FairnessBypass == WF_vars(SkipDbCommit \/ EndOfStream)

SpecBypass == InitBypass /\ [][NextBypass]_vars /\ FairnessBypass

(* ------------------------------ properties ----------------------------- *)
RECURSIVE JoinAll(_)
\* the sequences of ss joined in the order of ss
JoinAll(ss) == IF ss = <<>> THEN <<>> ELSE Head(ss) \o JoinAll(Tail(ss))

\* C1: whenever persist_checkpoints has been invoked in a cycle (its call is
\* pending or has completed), every one of the seven phase-1 calls of that
\* cycle has completed, and completed with Ok.
Phase2OnlyAfterPhase1 ==
    status["checkpoints"] # "idle" => \A c \in Phase1 : status[c] = "ok"

\* persist_checkpoints is in flight
Phase2Invoked == pc = "phase2" /\ status["checkpoints"] = "pending"

\* C2: once a phase-1 call of the cycle has returned an error,
\* persist_checkpoints is not invoked for the batch, no checkpoint row of the
\* batch is written, and the watermark keeps the value it had when the cycle
\* started.
Phase1ErrorStopsCycle ==
    (\E c \in Phase1 : status[c] = "err") =>
        /\ status["checkpoints"] = "idle"
        /\ Range(batches.checkpoint_batch) \cap store.checkpoints = {}
        /\ commit_notifier = hist.before

\* a cycle has ended in the panic after one of its phase-1 calls failed while
\* an earlier batch had been committed
Phase1ErrorPanicked ==
    /\ pc = "panicked"
    /\ \E c \in Phase1 : status[c] = "err"
    /\ hist.before # None

\* the store holds every row of record r outside the checkpoint category
HoldsData(st, r) ==
    /\ Range(r.transactions) \subseteq st.transactions
    /\ Range(r.tx_indices) \subseteq st.tx_indices
    /\ Range(r.events) \subseteq st.events
    /\ \A p \in r.display_updates :
         \E q \in st.displays : q[1] = p[1] /\ q[2] >= p[2]
    /\ Range(r.packages) \subseteq st.packages
    /\ r.object_changes \in st.objects
    /\ r.epoch # None => r.epoch[1] \in st.epoch

\* C3: in every reachable state, the states after a panic or a drop of the
\* task included, a checkpoint whose row is in the store has all its
\* transactions, tx indices, events, display updates, packages, object
\* changes and epoch data in the store.
CommitMarker ==
    \A i \in 1..Len(produced) :
        produced[i].checkpoint \in store.checkpoints
            => HoldsData(store, produced[i])

\* a later cycle is in the middle of its phase 1 (where a drop of the task
\* leaves the store as it is) while the store holds the row of a checkpoint
\* with transactions and an epoch change
CommitMarkerCase ==
    /\ pc \in {"phase1", "panicked"}
    /\ \E c \in Phase1 : status[c] = "ok"
    /\ \E c \in Phase1 : status[c] = "pending"
    /\ \E i \in 1..Len(produced) :
         /\ produced[i].checkpoint \in store.checkpoints
         /\ produced[i].transactions # <<>>
         /\ produced[i].epoch # None

\* C4: no publish replaces the watermark with a smaller sequence number (nor
\* with "none"): every step that changes a set watermark raises it.
WatermarkMonotonic ==
    [][(commit_notifier # None /\ commit_notifier' # commit_notifier)
          => (commit_notifier' # None
              /\ commit_notifier'[1] >= commit_notifier[1])]_vars

\* the watermark has been advanced from one sequence number to another
WatermarkAdvancedTwice ==
    /\ Len(hist.sent) >= 2
    /\ hist.before # None
    /\ commit_notifier # hist.before

\* the largest element of a non-empty set of numbers
Max(S) == CHOOSE m \in S : \A x \in S : x <= m

\* the sequence numbers of the chunk the current cycle was handed
CurrentChunk == hist.chunks[Len(hist.chunks)]

\* C5: right after the publish of a cycle the watermark holds the maximum
\* checkpoint sequence number of the chunk the cycle has committed.
PublishedIsBatchMax ==
    pc = "metrics" => commit_notifier = Some(Max(Range(CurrentChunk)))

\* a batch of several checkpoints has been published
PublishedSeveral == pc = "metrics" /\ Len(CurrentChunk) >= 2

\* C6: when the successful cycles so far have committed the checkpoints
\* a .. b, which are the first records of the stream in stream order however
\* they were split into batches, the watermark is b.
WatermarkIsLastCommitted ==
    hist.committed # <<>> =>
        LET all == JoinAll(hist.committed)
        IN /\ \A i \in 1..Len(all) :
                i <= Len(produced) /\ all[i] = produced[i].checkpoint
           /\ commit_notifier = Some(all[Len(all)])

\* three checkpoints committed in two batches, the watermark at the third
ThreeCommitted ==
    /\ pc = "next"
    /\ Len(hist.committed) = 2
    /\ Len(JoinAll(hist.committed)) = 3
    /\ commit_notifier = Some(FirstSeq + 2)

\* 1 while a commit cycle has started and not stored its value on the
\* watch channel (it is on its way, or it has ended in a panic), else 0
Unpublished ==
    IF pc \in {"phase1", "phase2", "publish", "panicked"} THEN 1 ELSE 0

\* C7: the number of values stored on the watch channel is the number of
\* chunks neither bypassed nor still unpublished (one send per cycle that got
\* through phase 2 and the publish, none for a bypassed or failed cycle), and
\* the watermark is the value of the last send: nothing else writes it.
WatermarkWrittenOncePerCommit ==
    /\ Len(hist.sent) = Len(hist.chunks) - hist.skipped - Unpublished
    /\ Len(hist.sent) + (IF pc = "publish" THEN 1 ELSE 0) <= hist.phase2_ok
    /\ commit_notifier =
          IF hist.sent = <<>> THEN None ELSE Some(hist.sent[Len(hist.sent)])

\* a cycle has failed after an earlier one had published
FailedAfterPublished == pc = "panicked" /\ Len(hist.sent) = 1

\* C8: with config.skip_db_commit set no persistence call is ever issued,
\* the store stays empty and the watermark stays "none".
BypassNeverCommits ==
    skip_db_commit =>
        /\ hist.store_calls = 0
        /\ status = Idle
        /\ store = EmptyStore
        /\ commit_notifier = None

\* the bypass has discarded every chunk of a stream of several chunks
BypassedStream ==
    /\ skip_db_commit
    /\ pc = "done"
    /\ hist.skipped >= 2
    /\ hist.skipped = Len(hist.chunks)

\* C9: the chunk a cycle takes is what the channel holds at that moment, cut
\* at CHECKPOINT_COMMIT_BATCH_SIZE records, and the rest stays queued; the
\* task takes a chunk whenever it waits for one and the channel is not empty.
GreedyBatching ==
    /\ [][hist'.chunks # hist.chunks =>
            LET n == Len(tx_indexing_receiver)
                k == IF n < checkpoint_commit_batch_size
                     THEN n ELSE checkpoint_commit_batch_size
                q == tx_indexing_receiver
            IN /\ hist'.chunks = Append(hist.chunks, Seqs(SubSeq(q, 1, k)))
               /\ tx_indexing_receiver' = SubSeq(q, k + 1, n)
         ]_vars
    /\ [](pc = "next" /\ tx_indexing_receiver # <<>>
            => ENABLED (SkipDbCommit \/ CommitCheckpoints))

\* batch size K = 2 and a stream of K + 1 records, all drained: a chunk of K
\* and then a chunk of 1
BurstSplit ==
    /\ checkpoint_commit_batch_size = 2
    /\ pc = "done"
    /\ Len(produced) = 3
    /\ Len(hist.chunks) = 2
    /\ Len(hist.chunks[1]) = 2
    /\ Len(hist.chunks[2]) = 1

\* s holds the elements of the set S, each once, in increasing order
\* (rows <<sequence number, position>> in lexicographic order)
InOrder(s, S, Less(_, _)) ==
    /\ Range(s) = S
    /\ \A i \in 1..Len(s) : \A j \in 1..Len(s) : i < j => Less(s[i], s[j])

RowLess(a, b) == a[1] < b[1] \/ (a[1] = b[1] /\ a[2] < b[2])
NumLess(a, b) == a < b

\* the records of the stream with the sequence numbers of the current chunk
CurrentRecords ==
    {produced[i] : i \in {j \in 1..Len(produced) :
                            produced[j].checkpoint \in Range(CurrentChunk)}}

\* C10: the chunks taken so far, joined in cycle order, followed by what is
\* still queued, are the stream as produced (every record dequeued is in
\* exactly one chunk); and the batches of a cycle hold the rows of the
\* chunk's records, each once, in the order of their checkpoints.
BatchesOrderedAndComplete ==
    /\ JoinAll(hist.chunks) \o Seqs(tx_indexing_receiver) = Seqs(produced)
    /\ batches # EmptyBatches =>
         /\ batches.checkpoint_batch = CurrentChunk
         /\ InOrder(batches.checkpoint_batch, Range(CurrentChunk), NumLess)
         /\ InOrder(batches.tx_batch,
                    UNION {Range(r.transactions) : r \in CurrentRecords},
                    RowLess)
         /\ InOrder(batches.tx_indices_batch,
                    UNION {Range(r.tx_indices) : r \in CurrentRecords},
                    RowLess)
         /\ InOrder(batches.events_batch,
                    UNION {Range(r.events) : r \in CurrentRecords}, RowLess)
         /\ InOrder(batches.packages_batch,
                    UNION {Range(r.packages) : r \in CurrentRecords}, RowLess)
         /\ InOrder(batches.object_changes_batch,
                    {r.object_changes : r \in CurrentRecords}, NumLess)
         /\ InOrder(batches.epochs_batch,
                    {r.epoch[1] :
                        r \in {x \in CurrentRecords : x.epoch # None}},
                    NumLess)

\* a later cycle works on a batch whose transactions come from two checkpoints
TwoCheckpointBatch ==
    /\ pc = "phase1"
    /\ Len(hist.chunks) >= 2
    /\ Len(batches.checkpoint_batch) = 2
    /\ Len(batches.tx_batch) >= 2

\* a step of the commit task or of a persistence call it has issued
TaskStep ==
    \/ SkipDbCommit
    \/ CommitCheckpoints
    \/ EndOfStream
    \/ \E c \in Phase1 : PersistOk(c)
    \/ \E c \in Phase1 : PersistErr(c)
    \/ Phase1Join
    \/ PersistCheckpointsOk
    \/ PersistCheckpointsErr
    \/ Publish
    \/ RecordMetrics

\* C11: a persistence error is fatal and not retried: a failed call stays
\* failed (it is not issued again), the cycle gets no further than the join
\* of phase 1, and once the task has panicked it takes no step any more: it
\* drains nothing and issues no persistence call.
PersistenceErrorFatal ==
    /\ hist.faults > 0 =>
         /\ Cardinality({c \in Categories : status[c] = "err"}) = hist.faults
         /\ pc \in {"phase1", "panicked"}
    /\ pc = "panicked" => ~ENABLED TaskStep

\* the task has panicked on a persistence error with records left queued
PanickedWithBacklog ==
    /\ pc = "panicked"
    /\ hist.faults > 0
    /\ tx_indexing_receiver # <<>>

RECURSIVE CountTx(_)
\* the number of transactions of the first n records of the stream
CountTx(n) ==
    IF n = 0 THEN 0 ELSE Len(produced[n].transactions) + CountTx(n - 1)

\* the number of epoch-change records of the first n records of the stream
CountEpochs(n) == Cardinality({i \in 1..n : produced[i].epoch # None})

\* the three commit counters count the batches published so far and no other
CountersOfPublished ==
    LET n == Len(JoinAll(hist.committed))
    IN /\ metrics.total_tx_checkpoint_committed = n
       /\ metrics.total_transaction_committed = CountTx(n)
       /\ metrics.total_epoch_committed = CountEpochs(n)

\* C12: when persist_checkpoints has failed (after a phase 1 that succeeded
\* in full) the task has panicked, the watermark has the value it had when
\* the cycle started and the commit counters count the earlier batches only.
Phase2FailureFatal ==
    status["checkpoints"] = "err" =>
        /\ \A c \in Phase1 : status[c] = "ok"
        /\ pc = "panicked"
        /\ commit_notifier = hist.before
        /\ CountersOfPublished

\* persist_checkpoints has failed for the second batch of a run
Phase2Failed ==
    /\ status["checkpoints"] = "err"
    /\ hist.before # None
    /\ batches.tx_batch # <<>>

\* C13: the loop ends ("done", which is no panic) only with the sender closed
\* and the channel drained, after every record produced has been in a chunk
\* and, without bypass, after every chunk has been committed and published;
\* and with the sender closed and the channel drained the waiting task can
\* take the end of the stream.
GracefulEndOfStream ==
    /\ pc = "done" =>
         /\ sender_closed
         /\ tx_indexing_receiver = <<>>
         /\ JoinAll(hist.chunks) = Seqs(produced)
         /\ status = Idle
         /\ hist.faults = 0
         /\ ~skip_db_commit => JoinAll(hist.committed) = Seqs(produced)
    /\ (pc = "next" /\ tx_indexing_receiver = <<>> /\ sender_closed)
         => ENABLED EndOfStream

\* the loop has ended after committing a stream of several records
EndedAfterCommits ==
    /\ pc = "done"
    /\ ~skip_db_commit
    /\ Len(produced) >= 2
    /\ Len(hist.committed) >= 2

\* the record of the stream with sequence number seq
RecordOf(seq) == produced[seq - FirstSeq + 1]

\* C14: whenever and however often the task is stopped and started again from
\* max(checkpoint row of the store) + 1, the checkpoint rows of the store are
\* the gap-free range from the first sequence number of the stream, each of
\* them has all its data in the store, and a run that reaches the end of the
\* stream ends with the row and the data of every record in the store.
CrashSafeResumption ==
    /\ store.checkpoints =
         {FirstSeq + i - 1 : i \in 1..Cardinality(store.checkpoints)}
    /\ Cardinality(store.checkpoints) <= Len(produced)
    /\ \A seq \in store.checkpoints : HoldsData(store, RecordOf(seq))
    /\ pc = "done" =>
         \A i \in 1..Len(produced) :
            /\ produced[i].checkpoint \in store.checkpoints
            /\ HoldsData(store, produced[i])

\* a task started again on a store with committed checkpoints commits a
\* batch whose transactions the interrupted commit had already written
ResumedOnPartialBatch ==
    /\ hist.restarts > 0
    /\ pc = "phase1"
    /\ status["transactions"] = "pending"
    /\ store.checkpoints # {}
    /\ \E row \in store.transactions :
         /\ row[1] \notin store.checkpoints
         /\ row[1] \in Range(batches.checkpoint_batch)

\* the store after one successful commit of chunk (sequence numbers) to the
\* empty store
CommittedOnce(chunk) ==
    LET rows(f) == UNION {Range(RecordOf(chunk[i])[f]) : i \in 1..Len(chunk)}
        last(k) == Max({i \in 1..Len(chunk) :
                          \E p \in RecordOf(chunk[i]).display_updates :
                             p[1] = k})
    IN [transactions |-> rows("transactions"),
        tx_indices   |-> rows("tx_indices"),
        events       |-> rows("events"),
        displays     |-> {p \in UNION {RecordOf(chunk[i]).display_updates :
                                          i \in 1..Len(chunk)} :
                             p \in RecordOf(chunk[last(p[1])]).display_updates},
        packages     |-> rows("packages"),
        objects      |-> {RecordOf(chunk[i]).object_changes :
                             i \in 1..Len(chunk)},
        epoch        |-> UNION {Range(RecordOf(chunk[i]).epoch) :
                                   i \in 1..Len(chunk)},
        checkpoints  |-> Range(chunk)]

\* C15: when the commit of a batch to the empty store is interrupted before
\* the watermark has advanced, with phase 2 done or not, and the same batch is
\* committed again, the store is the one a single successful commit of the
\* batch leaves: every row of the batch once (one checkpoint row per sequence
\* number) and nothing else.
IdempotentReplay ==
    (/\ hist.replayed # <<>>
     /\ hist.chunks = <<hist.replayed>>
     /\ status["checkpoints"] = "ok")
        => /\ store = CommittedOnce(hist.replayed)
           /\ Cardinality(store.checkpoints) = Len(hist.replayed)

\* a batch of two checkpoints has been committed a second time after its
\* first commit had written the checkpoint rows
CommittedTwice ==
    /\ pc = "metrics"
    /\ hist.chunks = <<hist.replayed>>
    /\ Len(hist.replayed) = 2
    /\ hist.snapshot = Range(hist.replayed)
    /\ status["checkpoints"] = "ok"

\* C16: the watermark never runs ahead of the store: when it is Some(w) the
\* checkpoint row of w and of every record of the stream up to w is stored.
WatermarkBehindStore ==
    commit_notifier # None =>
        \A i \in 1..Len(produced) :
            produced[i].checkpoint <= commit_notifier[1]
                => produced[i].checkpoint \in store.checkpoints

\* the watermark stands at the second checkpoint while a later cycle runs
WatermarkWhileCommitting ==
    /\ commit_notifier = Some(FirstSeq + 1)
    /\ pc = "phase2"

OneCycleAtATime ==
    /\ pc \in {"phase1", "phase2", "publish"} =>
         /\ Len(hist.sent) = Len(hist.chunks) - 1
         /\ metrics.total_tx_checkpoint_committed =
               Len(JoinAll(hist.chunks)) - Len(CurrentChunk)
    /\ hist.store_calls <=
          Cardinality(Categories) * (Len(hist.sent) + 1)
    /\ hist.store_calls >= Cardinality(Categories) * Len(hist.sent)

\* the second cycle is in its phase 1 while the next records are queued
SecondCycleWithBacklog ==
    /\ pc = "phase1"
    /\ Len(hist.chunks) = 2
    /\ tx_indexing_receiver # <<>>

\* C19: after a successful phase 2 and publish the metrics step of the cycle
\* can be taken and brings the loop back to stream.next(), for every batch,
\* one without transactions included.
MetricsNeverFail ==
    pc = "metrics" => ENABLED (RecordMetrics /\ pc' = "next")

\* a batch without transactions has been published, its metrics are due
MetricsOfEmptyBatch ==
    /\ pc = "metrics"
    /\ batches.tx_batch = <<>>
    /\ Len(batches.checkpoint_batch) = 2

\* C20: no observation of the time to commit 1000 transactions is made with a
\* divisor (transaction count) of zero.
LatencyObservationGuarded ==
    metrics.thousand_transaction_avg_db_commit_latency # None =>
        metrics.thousand_transaction_avg_db_commit_latency[1][2] # 0

\* the number of transactions of the records of chunk (sequence numbers)
ChunkTx(chunk) ==
    Len(JoinAll([i \in 1..Len(chunk) |-> RecordOf(chunk[i]).transactions]))

\* C21: once the metrics of a committed batch are recorded, the last
\* observation of transaction_per_checkpoint is the number of transactions of
\* the batch divided by the number of its checkpoints: the divisor
\* last - first + 1 is the checkpoint count of the batch.
TxPerCheckpointOfBatch ==
    (hist.committed # <<>> /\ pc # "metrics") =>
        LET b == hist.committed[Len(hist.committed)]
        IN metrics.transaction_per_checkpoint = Some(<<ChunkTx(b), Len(b)>>)

\* the metrics of a batch of two checkpoints, one with and one without
\* transactions, have been recorded
MixedBatchObserved ==
    /\ pc = "next"
    /\ hist.committed # <<>>
    /\ LET b == hist.committed[Len(hist.committed)]
       IN /\ Len(b) = 2
          /\ \E i \in 1..2 : RecordOf(b[i]).transactions = <<>>
          /\ \E i \in 1..2 : RecordOf(b[i]).transactions # <<>>

\* C22: the send comes before the counter update: whenever
\* total_tx_checkpoint_committed counts n checkpoints, the watermark is set
\* and is at least the sequence number of the n-th record handed to the task.
PublishedBeforeCounted ==
    LET n == metrics.total_tx_checkpoint_committed
    IN n > 0 =>
         /\ n <= Len(JoinAll(hist.chunks))
         /\ commit_notifier # None
         /\ commit_notifier[1] >= JoinAll(hist.chunks)[n]

\* the watermark of the second batch is published while the counter still
\* counts the first batch only
PublishedNotYetCounted ==
    /\ pc = "metrics"
    /\ Len(hist.committed) = 2
    /\ commit_notifier = Some(Max(Range(hist.committed[2])))
    /\ metrics.total_tx_checkpoint_committed = Len(hist.committed[1])

\* C23: the channel never holds more records than its capacity; while it is
\* full the producer cannot send, and a producer with records left can send
\* whenever the channel of a running task is not full, in particular as soon
\* as the task has drained a record of a full channel.
BackPressure ==
    /\ Len(tx_indexing_receiver) <= Capacity
    /\ Len(tx_indexing_receiver) = Capacity => ~ENABLED ProducerSend
    /\ (/\ TaskAlive
        /\ ~sender_closed
        /\ Len(produced) < MaxStream
        /\ Len(tx_indexing_receiver) < Capacity) => ENABLED ProducerSend

\* the committer is behind: the producer had filled the channel with records
\* left to send, could send again after the task had drained a chunk and has
\* filled the channel once more, in the middle of that chunk's cycle
ProducerUnblocked ==
    /\ pc = "phase1"
    /\ Len(hist.chunks) = 1
    /\ Len(produced) > Capacity
    /\ Len(tx_indexing_receiver) = Capacity

\* C24: without bypass, with every persistence call succeeding, a live
\* receiver and a fairly scheduled task, every record the producer has sent
\* is eventually committed: the watermark eventually is at least its
\* sequence number.
EveryRecordCommitted ==
    \A seq \in FirstSeq..(FirstSeq + MaxStream - 1) :
        (\E i \in 1..Len(produced) : produced[i].checkpoint = seq)
            ~> (commit_notifier # None /\ commit_notifier[1] >= seq)

\* the last record of the stream is queued behind a cycle in progress and
\* not yet committed
LastRecordWaiting ==
    /\ pc = "phase1"
    /\ Len(produced) = MaxStream
    /\ tx_indexing_receiver # <<>>
    /\ commit_notifier # Some(FirstSeq + MaxStream - 1)

\* C25: the watermark is None exactly as long as no send of the task has
\* stored a value, which takes a successful persist_checkpoints first; from
\* the first stored send on it is Some(sequence number).
WatermarkNoneUntilCommit ==
    /\ commit_notifier = None <=> hist.sent = <<>>
    /\ hist.phase2_ok = 0 => commit_notifier = None
    /\ commit_notifier # None =>
         commit_notifier[1] \in Range(JoinAll(hist.committed))

\* the first batch is in the store, checkpoint rows included, and the
\* watermark still reads None
CommittedNotYetPublished ==
    /\ pc = "publish"
    /\ hist.phase2_ok = 1
    /\ commit_notifier = None

\* C26: every chunk the stream has yielded, and so every batch handed to
\* commit_checkpoints, has at least one and at most
\* checkpoint_commit_batch_size records.
BatchSizeWithinCap ==
    /\ \A i \in 1..Len(hist.chunks) :
          Len(hist.chunks[i]) \in 1..checkpoint_commit_batch_size
    /\ pc \in {"phase1", "phase2", "publish", "metrics"} =>
          Len(batches.checkpoint_batch) \in 1..checkpoint_commit_batch_size

\* with batch size 2, commit_checkpoints got a batch of one record and now
\* has a batch of two
SmallAndFullBatch ==
    /\ ~skip_db_commit
    /\ checkpoint_commit_batch_size = 2
    /\ pc = "phase1"
    /\ Len(hist.chunks) = 2
    /\ Len(hist.chunks[1]) = 1
    /\ Len(batches.checkpoint_batch) = 2

\* the records of the current chunk in the order of the chunk
ChunkRecords == [i \in 1..Len(CurrentChunk) |-> RecordOf(CurrentChunk[i])]

\* C27: the display mapping of the batch has, for every key of a record of
\* the chunk, exactly the entry of the last record of the chunk that has the
\* key: entries of later records replace those of earlier ones, entries of
\* earlier records with other keys stay.
DisplayLastWriterWins ==
    pc \in {"phase1", "phase2", "publish", "metrics"} =>
        batches.display_updates_batch =
            {p \in UNION {ChunkRecords[i].display_updates :
                             i \in 1..Len(ChunkRecords)} :
                \E i \in 1..Len(ChunkRecords) :
                    /\ p \in ChunkRecords[i].display_updates
                    /\ \A j \in (i + 1)..Len(ChunkRecords) :
                          \A q \in ChunkRecords[j].display_updates :
                             q[1] # p[1]}

\* a batch of two checkpoints whose mappings share a key, which has the
\* value of the second, and whose first has a key the second has not, which
\* is kept
DisplayMerged ==
    /\ pc = "phase1"
    /\ Len(CurrentChunk) = 2
    /\ \E p \in ChunkRecords[1].display_updates :
         \E q \in ChunkRecords[2].display_updates :
            p[1] = q[1] /\ p[2] # q[2] /\ q \in batches.display_updates_batch
    /\ \E p \in ChunkRecords[1].display_updates :
         /\ \A q \in ChunkRecords[2].display_updates : q[1] # p[1]
         /\ p \in batches.display_updates_batch

\* C28: the iteration of an empty chunk changes nothing: no persistence call
\* is issued, store, watermark, metrics and channel stay as they are, the
\* task does not panic and is back at stream.next(), where it takes the next
\* chunk as soon as a record is queued.
EmptyChunkIsNoOp ==
    /\ [][(hist'.chunks # hist.chunks /\ hist'.chunks[Len(hist'.chunks)] = <<>>)
            => /\ pc' = "next"
               /\ hist' = [hist EXCEPT !.chunks = Append(@, <<>>)]
               /\ UNCHANGED <<config, channel, cycle, store,
                              commit_notifier, metrics>>
         ]_vars
    /\ [](pc = "next" /\ tx_indexing_receiver # <<>>
            => ENABLED CommitCheckpoints)

\* the chunk after an empty chunk is being committed
CommittingAfterEmptyChunk ==
    /\ pc = "phase1"
    /\ Len(hist.chunks) >= 2
    /\ hist.chunks[Len(hist.chunks) - 1] = <<>>
    /\ hist.chunks[Len(hist.chunks)] # <<>>

\* the cycles started so far (chunks handed to commit_checkpoints)
CyclesStarted == Len(hist.chunks) - hist.skipped

\* C29: in every cycle each of the seven phase-1 methods has been called, the
\* ones whose batch is empty included, and the number of persistence calls
\* issued is seven for every cycle started plus one persist_checkpoints for
\* every cycle that has got that far: no method is called twice in a cycle.
EachMethodOncePerCycle ==
    /\ pc \in {"phase1", "phase2", "publish", "metrics", "panicked"} =>
          \A c \in Phase1 : status[c] # "idle"
    /\ hist.store_calls =
          Cardinality(Phase1) * CyclesStarted
          + (IF pc \in {"next", "done"} THEN CyclesStarted
             ELSE CyclesStarted - 1
                  + (IF status["checkpoints"] # "idle" THEN 1 ELSE 0))

\* persist_epoch has been called and has completed for a batch without an
\* epoch change; persist_checkpoints has been called
EmptyEpochBatchPersisted ==
    /\ pc = "phase2"
    /\ batches.epochs_batch = <<>>
    /\ status["epoch"] = "ok"
    /\ status["checkpoints"] = "pending"

\* C30: the phase-1 calls of a cycle complete in any order and each writes
\* its own category only: whatever calls have completed so far, the rows of a
\* category are those of all chunks up to the current one if its call has
\* completed and those of the earlier chunks if it has not; so the store after
\* a successful phase 1 is the same for every completion order.
Phase1OrderIrrelevant ==
    ~skip_db_commit =>
        LET all == CommittedOnce(JoinAll(hist.chunks))
            earlier == CommittedOnce(JoinAll(
                           SubSeq(hist.chunks, 1, Len(hist.chunks) - 1)))
        IN \A c \in Phase1 :
              store[c] = IF pc \in {"next", "done"} \/ status[c] = "ok"
                         THEN all[c] ELSE earlier[c]

\* the calls complete in another order than they were issued: persist_epoch
\* (issued last) has written its row while persist_transactions (issued
\* first) is still pending
CompletedOutOfOrder ==
    /\ pc = "phase1"
    /\ batches.tx_batch # <<>>
    /\ batches.epochs_batch # <<>>
    /\ status["epoch"] = "ok"
    /\ status["transactions"] = "pending"
    /\ Range(batches.epochs_batch) \subseteq store.epoch

\* C31: join_all waits for all seven calls: a call that is pending can
\* complete whatever the others have returned, and when the task has panicked
\* on a phase-1 error no call of the cycle is left pending, the rows of
\* every call that succeeded are in the store and no checkpoint row of the
\* batch is.
JoinAllNotFailFast ==
    /\ \A c \in Phase1 :
          (pc = "phase1" /\ status[c] = "pending") => ENABLED PersistOk(c)
    /\ (pc = "panicked" /\ \E c \in Phase1 : status[c] = "err") =>
          /\ \A c \in Phase1 : status[c] \in {"ok", "err"}
          /\ \A c \in Phase1 :
                status[c] = "ok" =>
                   store[c] = CommittedOnce(JoinAll(hist.chunks))[c]
          /\ Range(batches.checkpoint_batch) \cap store.checkpoints = {}

\* the task has ended on a failed persist_transactions with the rows of the
\* six other categories of the batch in the store and no checkpoint row of it
PartialBatchLeft ==
    /\ pc = "panicked"
    /\ status["transactions"] = "err"
    /\ \A c \in Phase1 \ {"transactions"} : status[c] = "ok"
    /\ batches.tx_batch # <<>>
    /\ Range(batches.events_batch) \subseteq store.events
    /\ Range(batches.object_changes_batch) \subseteq store.objects
    /\ Range(batches.tx_batch) \cap store.transactions = {}
    /\ Range(batches.checkpoint_batch) \cap store.checkpoints = {}

\* C32: the chunk handed to commit_checkpoints is cut by the batch size and
\* by nothing else, an epoch change among the queued records included, and
\* epochs_batch holds the epoch-change records of the records of the chunk
\* that carry one, in the order of the chunk.
NoSplitAtEpochBoundary ==
    /\ (pc = "next" /\ tx_indexing_receiver # <<>> /\ ~skip_db_commit) =>
          LET n == Len(tx_indexing_receiver)
              k == IF n < checkpoint_commit_batch_size
                   THEN n ELSE checkpoint_commit_batch_size
          IN ENABLED (/\ CommitCheckpoints
                      /\ batches'.checkpoint_batch =
                            [i \in 1..k |-> tx_indexing_receiver[i].checkpoint])
    /\ pc \in {"phase1", "phase2", "publish", "metrics"} =>
          batches.epochs_batch =
             JoinAll([i \in 1..Len(ChunkRecords) |-> ChunkRecords[i].epoch])

\* a batch of two checkpoints, the first the last of its epoch and the second
\* the first of the next, with the one epoch-change record in epochs_batch
BatchAcrossEpochs ==
    /\ pc = "phase1"
    /\ Len(batches.checkpoint_batch) = 2
    /\ ChunkRecords[1].epoch # None
    /\ ChunkRecords[2].epoch = None
    /\ batches.epochs_batch = <<ChunkRecords[1].checkpoint>>

\* the batches whose metrics have been recorded: the published ones, but for
\* the one whose cycle is between the send and the metrics update
Counted ==
    IF pc = "metrics"
    THEN SubSeq(hist.committed, 1, Len(hist.committed) - 1)
    ELSE hist.committed

\* C33: the three commit counters never decrease, and they are the number of
\* checkpoints, of transactions and of epoch-change records of the batches
\* committed and published so far; a bypassed chunk and a cycle that failed
\* add nothing.
CounterConsistency ==
    /\ [][/\ metrics'.total_tx_checkpoint_committed >=
                metrics.total_tx_checkpoint_committed
          /\ metrics'.total_transaction_committed >=
                metrics.total_transaction_committed
          /\ metrics'.total_epoch_committed >=
                metrics.total_epoch_committed]_vars
    /\ [](LET seqs == JoinAll(Counted)
          IN /\ metrics.total_tx_checkpoint_committed = Len(seqs)
             /\ metrics.total_transaction_committed = ChunkTx(seqs)
             /\ metrics.total_epoch_committed =
                   Len(JoinAll([i \in 1..Len(seqs) |-> RecordOf(seqs[i]).epoch])))

\* two batches were committed and counted, with transactions and an epoch
\* change among them, and the cycle of a third has failed
CountedTwoOfThree ==
    /\ pc = "panicked"
    /\ Len(hist.chunks) = 3
    /\ Len(hist.committed) = 2
    /\ metrics.total_tx_checkpoint_committed = 2
    /\ metrics.total_transaction_committed > 0
    /\ metrics.total_epoch_committed > 0

\* C34: the input is not validated. On a stream whose sequence numbers have
\* gaps, repeat or decrease: the chunks taken are the records of the stream
\* in the order they were sent; a waiting chunk is taken whatever its
\* numbers; once the checkpoint call of a cycle has completed the rows of
\* every number of the batch are stored; at the send the value
\* Some(number of the last record of the chunk) can be stored whatever the
\* watermark holds; and every value sent is the number of the last record of
\* its chunk.
UnvalidatedInput ==
    /\ JoinAll(hist.chunks) =
          SubSeq(Seqs(produced), 1, Len(JoinAll(hist.chunks)))
    /\ (pc = "next" /\ tx_indexing_receiver # <<>>) =>
          ENABLED (CommitCheckpoints
                   /\ batches'.checkpoint_batch =
                         [i \in 1..Min(checkpoint_commit_batch_size,
                                       Len(tx_indexing_receiver)) |->
                            tx_indexing_receiver[i].checkpoint])
    /\ pc \in {"publish", "metrics"} =>
          /\ batches.checkpoint_batch = CurrentChunk
          /\ Range(CurrentChunk) \subseteq store.checkpoints
    /\ pc = "publish" =>
          ENABLED (Publish
                   /\ commit_notifier' =
                         Some(CurrentChunk[Len(CurrentChunk)]))
    /\ Len(hist.sent) <= Len(hist.chunks)
    /\ \A i \in 1..Len(hist.sent) :
          hist.sent[i] = hist.chunks[i][Len(hist.chunks[i])]
    /\ Len(hist.sent) > 0 =>
          commit_notifier = Some(hist.sent[Len(hist.sent)])

\* a batch whose second number is smaller than its first has been persisted
\* and published: the watermark holds the smaller number, below a number
\* that is stored, and has gone back from the value it held before
DecreasingBatchPublished ==
    /\ pc = "metrics"
    /\ CurrentChunk = <<FirstSeq + 3, FirstSeq>>
    /\ commit_notifier = Some(FirstSeq)
    /\ FirstSeq + 3 \in store.checkpoints
    /\ hist.before = Some(FirstSeq + 3)

\* C35: in bypass mode the queue is still consumed. Every record sent is
\* eventually taken from the queue in a chunk, and the chunks taken and the
\* records waiting are the records sent, in order; the chunks are discarded
\* (no store call, nothing stored, nothing published, no metric); a full
\* queue eventually has room again, so that the indexing stage can send its
\* next record; and once the sender is closed the loop eventually ends,
\* with the queue drained.
BypassDrains ==
    /\ \A n \in 1..MaxStream :
          (Len(produced) >= n) ~> (Len(JoinAll(hist.chunks)) >= n)
    /\ [](JoinAll(hist.chunks) \o Seqs(tx_indexing_receiver) = Seqs(produced))
    /\ [](/\ hist.skipped = Len(hist.chunks)
          /\ hist.store_calls = 0
          /\ store = EmptyStore
          /\ commit_notifier = None
          /\ metrics.total_tx_checkpoint_committed = 0)
    /\ (Len(tx_indexing_receiver) = Capacity)
          ~> (Len(tx_indexing_receiver) < Capacity)
    /\ (/\ Len(tx_indexing_receiver) = Capacity
        /\ ~sender_closed
        /\ Len(produced) < MaxStream)
          ~> (sender_closed \/ ENABLED ProducerSend)
    /\ sender_closed ~> (pc = "done" /\ tx_indexing_receiver = <<>>)

\* in bypass mode the loop has ended at the end of a stream longer than the
\* queue, whose first chunk was a full queue: the indexing stage has sent
\* its later records after the discard had made room
BypassUnblockedProducer ==
    /\ skip_db_commit
    /\ pc = "done"
    /\ Len(produced) > Capacity
    /\ Len(hist.chunks[1]) = Capacity
    /\ Len(JoinAll(hist.chunks)) = Len(produced)

====
